---- MODULE Spec2Model ----
(***************************************************************************)
(* Model of the two utility scripts of the repository:                     *)
(*   - conv.py    : process_file, the subdivision CSV -> SQL converter     *)
(*   - visitor.py : the synthetic visitor data generator                   *)
(* Strings are sequences of one-character strings, so that strip, upper,   *)
(* capitalize, replace and int() are computed character by character.      *)
(***************************************************************************)
EXTENDS Integers, Sequences, FiniteSets, TLC

VARIABLES
    file,            \* conv.py: the parsed input, a sequence of csv rows
    pos,             \* conv.py: index of the next row the reader yields
    pc,              \* conv.py: position in process_file
    rows,            \* conv.py: the list `rows` of formatted tuples
    seen,            \* conv.py: the set `seen` of dedup keys
    outfile,         \* conv.py: content of the output file
    outfile_before,  \* conv.py: content of the output file before the run
    out_opens,       \* conv.py: number of open(output_filename, 'w') calls
    exit_msg,        \* conv.py: argument of sys.exit, <<>> while not called
    stdout,          \* conv.py: lines printed
    processed,       \* conv.py: indices of the rows the for loop has yielded
    run,             \* visitor.py: which execution of the script (1 or 2)
    clock,           \* visitor.py: the wall clock read by datetime.now()
    stream,          \* visitor.py: which generator stream the library yields
    rng,             \* visitor.py: state of the module-level random source
    unique_lat_longs,\* visitor.py: the set built by the while loop
    lat_long_list,   \* visitor.py: the list made from the set
    attempts,        \* visitor.py: iterations of the while loop so far
    i,               \* visitor.py: loop counter of the for loop
    csv_rows,        \* visitor.py: rows written to visitation_data.csv
    prev_csv_rows,   \* visitor.py: the file left by the previous execution
    gpc              \* visitor.py: position in the script

conv_vars == <<file, pos, pc, rows, seen, outfile, outfile_before, out_opens,
               exit_msg, stdout, processed>>
gen_vars == <<run, clock, stream, rng, unique_lat_longs, lat_long_list,
              attempts, i,
              csv_rows, prev_csv_rows, gpc>>
vars == <<file, pos, pc, rows, seen, outfile, outfile_before, out_opens,
          exit_msg, stdout, processed, run, clock, stream, rng,
          unique_lat_longs, lat_long_list, attempts, i, csv_rows,
          prev_csv_rows, gpc>>

(***************************************************************************)
(* Bounds of the model.                                                    *)
(***************************************************************************)
MaxRows == 3

(***************************************************************************)
(* String functions of the Python library used by conv.py.                 *)
(***************************************************************************)
LowerLetters == <<"a","b","c","d","e","f","g","h","i","j","k","l","m",
                  "n","o","p","q","r","s","t","u","v","w","x","y","z">>
UpperLetters == <<"A","B","C","D","E","F","G","H","I","J","K","L","M",
                  "N","O","P","Q","R","S","T","U","V","W","X","Y","Z">>
Digits == <<"0","1","2","3","4","5","6","7","8","9">>
Whitespace == {" ", "\t", "\n", "\r"}

IndexIn(c, letters) ==
    IF \E k \in 1..Len(letters) : letters[k] = c
    THEN CHOOSE k \in 1..Len(letters) : letters[k] = c
    ELSE 0

UpperChar(c) ==
    IF IndexIn(c, LowerLetters) > 0 THEN UpperLetters[IndexIn(c, LowerLetters)]
    ELSE c

LowerChar(c) ==
    IF IndexIn(c, UpperLetters) > 0 THEN LowerLetters[IndexIn(c, UpperLetters)]
    ELSE c

\* str.upper()
Upper(s) == [k \in 1..Len(s) |-> UpperChar(s[k])]

\* str.lower()
Lower(s) == [k \in 1..Len(s) |-> LowerChar(s[k])]

\* str.capitalize(): first character upper-cased, the rest lower-cased
Capitalize(s) ==
    IF s = <<>> THEN <<>> ELSE <<UpperChar(s[1])>> \o Lower(Tail(s))

RECURSIVE LStripChars(_, _)
LStripChars(s, cs) ==
    IF s # <<>> /\ s[1] \in cs THEN LStripChars(Tail(s), cs) ELSE s

RECURSIVE RStripChars(_, _)
RStripChars(s, cs) ==
    IF s # <<>> /\ s[Len(s)] \in cs
    THEN RStripChars(SubSeq(s, 1, Len(s) - 1), cs)
    ELSE s

\* str.strip(chars)
StripChars(s, cs) == RStripChars(LStripChars(s, cs), cs)

\* str.strip()
Strip(s) == StripChars(s, Whitespace)

\* the cleaning expression  x.strip().strip('"')
Clean(s) == StripChars(Strip(s), {"\""})

\* a variant of EscapeQuotes that doubles the first single quote only
M_EscapeQuotesFirstOnly(s) ==
    IF \E k \in 1..Len(s) : s[k] = "'"
    THEN LET k == CHOOSE k \in 1..Len(s) :
                     s[k] = "'" /\ \A j \in 1..(k - 1) : s[j] # "'"
         IN  SubSeq(s, 1, k) \o <<"'">> \o SubSeq(s, k + 1, Len(s))
    ELSE s

\* str.replace("'", "''")
RECURSIVE EscapeQuotes(_)
EscapeQuotes(s) ==
    IF s = <<>> THEN <<>>
    ELSE (IF s[1] = "'" THEN <<"'", "'">> ELSE <<s[1]>>)
         \o EscapeQuotes(Tail(s))

\* int(str): surrounding whitespace, an optional sign, then decimal digits
\* that may be separated by single underscores
IsDigit(c) == IndexIn(c, Digits) > 0

IntBody(s) ==
    LET t == Strip(s)
    IN  IF t # <<>> /\ t[1] \in {"+", "-"} THEN Tail(t) ELSE t

IntParses(s) ==
    LET b == IntBody(s)
    IN  /\ b # <<>>
        /\ \A k \in 1..Len(b) : IsDigit(b[k]) \/ b[k] = "_"
        /\ IsDigit(b[1])
        /\ IsDigit(b[Len(b)])
        /\ \A k \in 1..(Len(b) - 1) : ~(b[k] = "_" /\ b[k + 1] = "_")

RECURSIVE DigitsValue(_, _)
DigitsValue(b, acc) ==
    IF b = <<>> THEN acc
    ELSE IF b[1] = "_" THEN DigitsValue(Tail(b), acc)
    ELSE DigitsValue(Tail(b), 10 * acc + (IndexIn(b[1], Digits) - 1))

IntValue(s) ==
    LET t == Strip(s)
        v == DigitsValue(IntBody(s), 0)
    IN  IF t[1] = "-" THEN 0 - v ELSE v

(***************************************************************************)
(* conv.py: constants and the input domain.                                *)
(***************************************************************************)
HEADER_NAME == <<"C","O","U","N","T","R","Y"," ","S","H","O","R","T"," ",
                 "C","O","D","E">>

INSERT_HEAD == "INSERT INTO public.iso_country_subdivision (subdivision_id, country_code, subdivision_code, subdivision_name, subdivision_type) VALUES\n"

\* A header line, written in lower case with a trailing blank.
RowHeader == << <<"c","o","u","n","t","r","y"," ","s","h","o","r","t"," ",
                  "c","o","d","e"," ">>,
                <<"n">>, <<"t">>, <<"c">>, <<"i","d">> >>
\* A blank line: csv.reader yields a row with no field.
RowBlank == << >>
\* A row with too few fields.
RowShort == << <<"K","R">>, <<"x">> >>
RowKp == << <<"k","p">>, <<"O","'","x">>, <<"c","i","t","y">>,
            <<"0","1">>, <<"1">> >>
RowKR == << <<"K","R">>, <<"B">>, <<"s","T">>, <<"0","1">>, <<"2">> >>
RowKrLower == << <<"k","r">>, <<"c">>, <<"s","t">>, <<"0","1">>, <<"3">> >>
\* An id that is not an integer, under a key of its own.
RowBadId == << <<"K","R">>, <<"d">>, <<"s","t">>, <<"0","2">>,
               <<"a","b","c">> >>
\* An id that is not an integer, under the key of RowKp and RowKR.
RowDupBadId == << <<"K","P">>, <<"e">>, <<"s","t">>, <<"0","1">>, <<"x">> >>
\* Quotes, blanks and an extra field.
RowQuoted == << <<" ","\"","K","'","\""," ">>, <<"'","'">>,
                <<"\"","p","'","R","\"">>, <<" ","'","1">>,
                <<" ","-","1","_","0"," ">>, <<"z">> >>

InputRows == {RowHeader, RowBlank, RowShort, RowKp, RowKR, RowKrLower,
              RowBadId, RowDupBadId, RowQuoted}

InputFiles == UNION {[1..n -> InputRows] : n \in 0..MaxRows}

NoFile == << >>
StaleContent == << [text |-> "stale", tuples |-> << >>] >>
PriorContents == {NoFile, StaleContent}

(***************************************************************************)
(* conv.py: process_file.                                                  *)
(***************************************************************************)
\* line 53: the f-string of one VALUES tuple, kept as its five holes
RowStr(subdivision_id, country_alpha2, code_sql, name_sql, type_sql) ==
    [subdivision_id |-> subdivision_id,
     country_alpha2 |-> country_alpha2,
     subdivision_code |-> code_sql,
     subdivision_name |-> name_sql,
     subdivision_type |-> type_sql]

\* a variant of RemapCountry that compares without upper()
M_RemapCountryCaseSensitive(country_alpha2) ==
    IF country_alpha2 = <<"K","P">> THEN <<"K","R">> ELSE country_alpha2

\* a variant of RemapCountry that upper-cases every code
M_RemapCountryUpperCased(country_alpha2) ==
    IF Upper(country_alpha2) = <<"K","P">> THEN <<"K","R">>
    ELSE Upper(country_alpha2)

\* lines 29-31
RemapCountry(country_alpha2) ==
    IF Upper(country_alpha2) = <<"K","P">> THEN <<"K","R">>
    ELSE country_alpha2

\* a variant of DedupKey that is computed before the KP remap
M_DedupKeyBeforeRemap(line) == <<Clean(line[1]), Clean(line[4])>>

\* line 34
DedupKey(line) == <<RemapCountry(Clean(line[1])), Clean(line[4])>>

\* a variant of IsHeader that compares without upper()
M_IsHeaderCaseSensitive(header) == Strip(header[1]) = HEADER_NAME

\* line 14
IsHeader(header) == Upper(Strip(header[1])) = HEADER_NAME

\* line 18
Malformed(line) == Len(line) < 5

\* a variant of InvalidId that rejects the empty field only
M_InvalidIdOnlyEmpty(regional_number_code) == regional_number_code = << >>

\* lines 39-41: int(regional_number_code) raises ValueError
InvalidId(regional_number_code) == ~IntParses(regional_number_code)

\* lines 57-60: the three writes of the with block
Statement(rs) ==
    << [text |-> INSERT_HEAD, tuples |-> << >>],
       [text |-> ",\n", tuples |-> rs],
       [text |-> ";\n", tuples |-> << >>] >>

ConvInit ==
    /\ file \in InputFiles
    /\ outfile \in PriorContents
    /\ outfile_before = outfile
    /\ pos = 1
    /\ pc = "start"
    /\ rows = << >>
    /\ seen = {}
    /\ out_opens = 0
    /\ exit_msg = << >>
    /\ stdout = << >>
    /\ processed = << >>

\* a variant of ReadHeader that opens (and truncates) the output file first
M_ReadHeaderOpensOutput ==
    /\ pc = "start"
    /\ out_opens' = out_opens + 1
    /\ outfile' = << >>
    /\ IF file = << >>
       THEN pc' = "crash" /\ pos' = pos
       ELSE IF file[1] = << >>
       THEN pc' = "crash" /\ pos' = 2
       ELSE /\ pc' = "loop"
            /\ pos' = IF Upper(Strip(file[1][1])) = HEADER_NAME THEN 2 ELSE 1
    /\ UNCHANGED <<file, rows, seen, outfile_before, exit_msg, stdout,
                   processed>>

\* lines 9-16: open the input, read the first row, rewind unless it is a header
ReadHeader ==
    /\ pc = "start"
    /\ IF file = << >>
       THEN \* next(reader) on an empty file raises StopIteration
            /\ pc' = "crash"
            /\ pos' = pos
       ELSE IF file[1] = << >>
       THEN \* header[0] on a row without fields raises IndexError
            /\ pc' = "crash"
            /\ pos' = 2
       ELSE /\ pc' = "loop"
            /\ pos' = IF IsHeader(file[1]) THEN 2 ELSE 1
    /\ UNCHANGED <<file, rows, seen, outfile, outfile_before, out_opens,
                   exit_msg, stdout, processed>>

\* lines 17-54: one iteration of the for loop
ProcessLine ==
    /\ pc = "loop"
    /\ pos <= Len(file)
    /\ LET line == file[pos] IN
       /\ pos' = pos + 1
       /\ processed' = Append(processed, pos)
       /\ IF Malformed(line)
          THEN UNCHANGED <<rows, seen, pc, exit_msg>>
          ELSE LET country_alpha2 == RemapCountry(Clean(line[1]))
                   region_name == Clean(line[2])
                   region_type == Capitalize(Clean(line[3]))
                   regional_code == Clean(line[4])
                   regional_number_code == Strip(line[5])
                   dedup_key == DedupKey(line)
               IN  IF dedup_key \in seen
                   THEN UNCHANGED <<rows, seen, pc, exit_msg>>
                   ELSE /\ seen' = seen \cup {dedup_key}
                        /\ IF InvalidId(regional_number_code)
                           THEN /\ pc' = "fatal"
                                /\ exit_msg' = <<"Invalid subdivision id: ",
                                                 regional_number_code>>
                                /\ rows' = rows
                           ELSE /\ rows' = Append(rows,
                                      RowStr(IntValue(regional_number_code),
                                             country_alpha2,
                                             EscapeQuotes(regional_code),
                                             EscapeQuotes(region_name),
                                             EscapeQuotes(region_type)))
                                /\ UNCHANGED <<pc, exit_msg>>
    /\ UNCHANGED <<file, outfile, outfile_before, out_opens, stdout>>

\* line 17 -> 56: the reader is exhausted, the input is closed
EndOfInput ==
    /\ pc = "loop"
    /\ pos > Len(file)
    /\ pc' = "write"
    /\ UNCHANGED <<file, pos, rows, seen, outfile, outfile_before, out_opens,
                   exit_msg, stdout, processed>>

\* lines 57-60: open the output for writing (truncating it) and write
WriteOutput ==
    /\ pc = "write"
    /\ out_opens' = out_opens + 1
    /\ outfile' = Statement(rows)
    /\ pc' = "print"
    /\ UNCHANGED <<file, pos, rows, seen, outfile_before, exit_msg, stdout,
                   processed>>

\* line 62
PrintConfirmation ==
    /\ pc = "print"
    /\ stdout' = Append(stdout, "SQL batch insert statement written to")
    /\ pc' = "done"
    /\ UNCHANGED <<file, pos, rows, seen, outfile, outfile_before, out_opens,
                   exit_msg, processed>>

(***************************************************************************)
(* visitor.py.  The library's generator is a deterministic function of its *)
(* state; which function is not modelled, so the model takes one of a      *)
(* family of linear congruential streams, chosen once and shared by every  *)
(* execution of the script.  The pool size and the row count are scaled    *)
(* down: PoolSize stands for 1_500 and NumRows for 3_000_000.              *)
(***************************************************************************)
SEED == 42
YEARS_BACK == 3
DaysPerYear == 365
SecondsPerDay == 86400
MicroDegrees == 1000000
NumLetters == 52

PoolSize == 3
NumRows == 3
MaxAttempts == 5
MaxClock == 2
RngMod == 64
NumStreams == 4

\* one step of the generator
NextRng(x) == (5 * x + stream) % RngMod

\* the states after 1..k steps from x
RECURSIVE RngSeq(_, _)
RngSeq(x, k) ==
    IF k = 0 THEN << >> ELSE <<NextRng(x)>> \o RngSeq(NextRng(x), k - 1)

\* random.randint(a, b) read off the state x
RandInt(x, a, b) == a + (x % (b - a + 1))

\* round(random.uniform(a, b), 6) read off the state x, in micro-degrees;
\* the model keeps two levels of each coordinate so that draws collide
Uniform6(x, a, b) ==
    a * MicroDegrees + (((b - a) * MicroDegrees) \div 2) * ((2 * x) \div RngMod)

\* line 9: random_ipv4 from four successive states
RandomIpv4(xs) == [k \in 1..4 |-> RandInt(xs[k], 1, 254)]

\* line 12: random_string from the states after the length draw
RandomString(xs) == [k \in 1..Len(xs) |-> xs[k] % NumLetters]

\* lines 23-26: random_datetime_within_years, in seconds
RandomDatetime(now, x, years_back) ==
    LET start == now - years_back * DaysPerYear * SecondsPerDay
        span == now - start
    IN  start + RandInt(x, 0, span)

\* line 33: list(set); the order is a fixed function of the set
RECURSIVE SetToList(_)
SetToList(S) ==
    IF S = {} THEN << >>
    ELSE LET least == CHOOSE p \in S :
                         \A q \in S : \/ p[1] < q[1]
                                      \/ (p[1] = q[1] /\ p[2] <= q[2])
         IN  <<least>> \o SetToList(S \ {least})

\* a variant of PoolIncomplete that is off by one
M_PoolIncompleteInclusive(S) == Cardinality(S) <= PoolSize

\* line 29: the condition of the while loop
PoolIncomplete(S) == Cardinality(S) < PoolSize

\* line 37: the condition of the for loop
MoreRows(n) == n < NumRows

GenInit ==
    /\ run = 1
    /\ clock = 0
    /\ stream \in 1..NumStreams
    /\ rng = 0
    /\ unique_lat_longs = {}
    /\ lat_long_list = << >>
    /\ attempts = 0
    /\ i = 0
    /\ csv_rows = << >>
    /\ prev_csv_rows = << >>
    /\ gpc = "start"

\* lines 6 and 28
Seed ==
    /\ gpc = "start"
    /\ rng' = SEED % RngMod
    /\ unique_lat_longs' = {}
    /\ gpc' = "pool"
    /\ UNCHANGED <<run, clock, stream, lat_long_list, attempts, i, csv_rows,
                   prev_csv_rows>>

\* lines 29-32: one iteration of the while loop
PoolStep ==
    /\ gpc = "pool"
    /\ PoolIncomplete(unique_lat_longs)
    /\ attempts < MaxAttempts
    /\ LET xs == RngSeq(rng, 2)
           lat == Uniform6(xs[1], -90, 90)
           lon == Uniform6(xs[2], -180, 180)
       IN  /\ unique_lat_longs' = unique_lat_longs \cup {<<lat, lon>>}
           /\ rng' = xs[2]
    /\ attempts' = attempts + 1
    /\ UNCHANGED <<run, clock, stream, lat_long_list, i, csv_rows,
                   prev_csv_rows, gpc>>

\* lines 29, 33, 35-36: the loop ends, the set becomes a list, the file is
\* opened for writing
PoolDone ==
    /\ gpc = "pool"
    /\ ~PoolIncomplete(unique_lat_longs)
    /\ lat_long_list' = SetToList(unique_lat_longs)
    /\ csv_rows' = << >>
    /\ i' = 0
    /\ gpc' = "rows"
    /\ UNCHANGED <<run, clock, stream, rng, unique_lat_longs, attempts,
                   prev_csv_rows>>

\* lines 37-43: one iteration of the for loop
WriteRow ==
    /\ gpc = "rows"
    /\ MoreRows(i)
    /\ LET x1 == NextRng(rng)
           pair == lat_long_list[(x1 % Len(lat_long_list)) + 1]
           ipx == RngSeq(x1, 4)
           x6 == NextRng(ipx[4])
           cityx == RngSeq(x6, RandInt(x6, 6, 10))
           x7 == NextRng(cityx[Len(cityx)])
           countryx == RngSeq(x7, RandInt(x7, 7, 15))
           x8 == NextRng(countryx[Len(countryx)])
           visited_at == RandomDatetime(clock, x8, YEARS_BACK)
       IN  /\ csv_rows' = Append(csv_rows,
                  <<pair[1], pair[2], RandomIpv4(ipx), RandomString(cityx),
                    RandomString(countryx), visited_at>>)
           /\ rng' = x8
    /\ i' = i + 1
    /\ UNCHANGED <<run, clock, stream, unique_lat_longs, lat_long_list,
                   attempts, prev_csv_rows, gpc>>

\* line 37 -> end: the for loop ends, the file is closed
Finish ==
    /\ gpc = "rows"
    /\ ~MoreRows(i)
    /\ gpc' = "done"
    /\ UNCHANGED <<run, clock, stream, rng, unique_lat_longs, lat_long_list,
                   attempts, i, csv_rows, prev_csv_rows>>

\* the script is executed again, in a new process: the file of the first
\* execution is still on disk, nothing else is kept
RunAgain ==
    /\ gpc = "done"
    /\ run = 1
    /\ run' = 2
    /\ prev_csv_rows' = csv_rows
    /\ rng' = 0
    /\ unique_lat_longs' = {}
    /\ lat_long_list' = << >>
    /\ attempts' = 0
    /\ i' = 0
    /\ gpc' = "start"
    /\ UNCHANGED <<clock, stream, csv_rows>>

\* time passes
Tick ==
    /\ clock < MaxClock
    /\ clock' = clock + 1
    /\ UNCHANGED <<run, stream, rng, unique_lat_longs, lat_long_list,
                   attempts, i, csv_rows, prev_csv_rows, gpc>>

ConvIdle ==
    /\ file = << >>
    /\ outfile = NoFile
    /\ outfile_before = NoFile
    /\ pos = 1
    /\ pc = "idle"
    /\ rows = << >>
    /\ seen = {}
    /\ out_opens = 0
    /\ exit_msg = << >>
    /\ stdout = << >>
    /\ processed = << >>

GenIdle ==
    /\ run = 1
    /\ clock = 0
    /\ stream = 1
    /\ rng = 0
    /\ unique_lat_longs = {}
    /\ lat_long_list = << >>
    /\ attempts = 0
    /\ i = 0
    /\ csv_rows = << >>
    /\ prev_csv_rows = << >>
    /\ gpc = "idle"

Init == ConvInit /\ GenIdle

Next ==
    \/ ReadHeader /\ UNCHANGED gen_vars
    \/ ProcessLine /\ UNCHANGED gen_vars
    \/ EndOfInput /\ UNCHANGED gen_vars
    \/ WriteOutput /\ UNCHANGED gen_vars
    \/ PrintConfirmation /\ UNCHANGED gen_vars

Spec == Init /\ [][Next]_vars

GenStart == GenInit /\ ConvIdle

GenNext ==
    \/ Seed /\ UNCHANGED conv_vars
    \/ PoolStep /\ UNCHANGED conv_vars
    \/ PoolDone /\ UNCHANGED conv_vars
    \/ WriteRow /\ UNCHANGED conv_vars
    \/ Finish /\ UNCHANGED conv_vars
    \/ RunAgain /\ UNCHANGED conv_vars
    \/ Tick /\ UNCHANGED conv_vars

GenSpec == GenStart /\ [][GenNext]_vars

(***************************************************************************)
(* Properties of process_file.  The definitions below state what the       *)
(* input determines, independently of the loop of process_file.            *)
(***************************************************************************)
KP == <<"K","P">>
KR == <<"K","R">>
Succeeded == pc \in {"write", "print", "done"}
Aborted == pc \in {"fatal", "crash"}

\* index of the first data row: 2 when the first row is a header line
DataStart ==
    IF file # << >> /\ file[1] # << >>
       /\ Upper(Strip(file[1][1])) = HEADER_NAME
    THEN 2 ELSE 1

\* indices of the data rows with at least 5 fields
FullRows == {k \in DataStart..Len(file) : Len(file[k]) >= 5}

\* the alpha-2 code and the dedup key the specification gives a row
SpecAlpha2(r) == IF Upper(Clean(r[1])) = KP THEN KR ELSE Clean(r[1])
SpecKey(r) == <<SpecAlpha2(r), Clean(r[4])>>

\* indices of the rows that carry their key for the first time
FirstOccurrences ==
    {k \in FullRows :
        \A j \in FullRows : j < k => SpecKey(file[j]) # SpecKey(file[k])}

\* the m-th element of a set of indices, in increasing order
Nth(S, m) == CHOOSE k \in S : Cardinality({j \in S : j < k}) = m - 1

\* str.replace("''", "'"): collapse doubled quotes, left to right
RECURSIVE CollapseQuotes(_)
CollapseQuotes(s) ==
    IF s = << >> THEN << >>
    ELSE IF Len(s) >= 2 /\ s[1] = "'" /\ s[2] = "'"
    THEN <<"'">> \o CollapseQuotes(SubSeq(s, 3, Len(s)))
    ELSE <<s[1]>> \o CollapseQuotes(Tail(s))

QuoteCount(s) == Cardinality({k \in 1..Len(s) : s[k] = "'"})

\* t is s with every single quote doubled and nothing else changed
IsDoubled(t, s) ==
    /\ CollapseQuotes(t) = s
    /\ Len(t) = Len(s) + QuoteCount(s)
    /\ QuoteCount(t) = 2 * QuoteCount(s)

\* the tuple the specification gives a row
SpecTuple(r) ==
    [subdivision_id |-> IntValue(Strip(r[5])),
     country_alpha2 |-> SpecAlpha2(r),
     subdivision_code |-> EscapeQuotes(Clean(r[4])),
     subdivision_name |-> EscapeQuotes(Clean(r[2])),
     subdivision_type |-> EscapeQuotes(Capitalize(Clean(r[3])))]

\* C1: after all rows are consumed without a fatal error, rows holds exactly
\* one tuple per distinct dedup key of the data rows with at least 5 fields,
\* built from the earliest row carrying the key, in the order of the first
\* occurrences; and a row whose key an earlier row carries changes nothing.
C1_FirstOccurrenceWins ==
    Succeeded =>
        /\ Len(rows) = Cardinality(FirstOccurrences)
        /\ \A m \in 1..Len(rows) :
               rows[m] = SpecTuple(file[Nth(FirstOccurrences, m)])
        /\ seen = {SpecKey(file[k]) : k \in FullRows}

C1_LaterDuplicateIgnored ==
    (/\ pc = "loop"
     /\ pos \in FullRows
     /\ pos \notin FirstOccurrences)
    => (rows' = rows /\ seen' = seen /\ pc' = "loop")

C1_Dedup == [](C1_FirstOccurrenceWins) /\ [][C1_LaterDuplicateIgnored]_vars

C1_Witness ==
    /\ pc = "done"
    /\ Len(rows) >= 2
    /\ Cardinality(FullRows) > Len(rows)
    /\ outfile[2].tuples = rows

\* C2 as stated: whenever some data row with at least 5 fields has a fifth
\* field that is no integer, the run never reaches the success state.
BadIdRows == {k \in FullRows : ~IntParses(Strip(file[k][5]))}

C2_AnyBadIdIsFatal == (BadIdRows # {}) => ~Succeeded

\* C2 as amended: whenever some data row with at least 5 fields that is the
\* first to carry its dedup key has a fifth field that is no integer, the run
\* never reaches the success state, and once the loop has taken the first
\* such row the run has ended in sys.exit with a message naming the value.
FirstBadIdRows == BadIdRows \cap FirstOccurrences

C2_FirstOccurrenceBadIdIsFatal ==
    (FirstBadIdRows # {}) =>
        LET kb == Nth(FirstBadIdRows, 1) IN
        /\ ~Succeeded
        /\ (pc = "loop" => pos <= kb)
        /\ (pc = "fatal" =>
               /\ pos = kb + 1
               /\ exit_msg = <<"Invalid subdivision id: ", Strip(file[kb][5])>>
               /\ stdout = << >>)

C2_Witness ==
    /\ pc = "fatal"
    /\ Len(rows) >= 1
    /\ BadIdRows \ FirstOccurrences # {}
    /\ exit_msg = <<"Invalid subdivision id: ", <<"a","b","c">> >>

\* C3: in a run that ends in a fatal error the output file is never opened
\* and keeps the content it had before the run; the output file is written
\* only after the last input row was processed; a successful run writes it
\* exactly once, replacing the prior content, before the confirmation.
C3_FrameOnAbort == Aborted => (out_opens = 0 /\ outfile = outfile_before)

C3_WrittenOnce ==
    /\ pc \in {"print", "done"} =>
           (out_opens = 1 /\ outfile = Statement(rows))
    /\ stdout # << >> => (out_opens = 1 /\ outfile = Statement(rows))
    /\ pc \in {"start", "loop", "write"} =>
           (out_opens = 0 /\ outfile = outfile_before /\ stdout = << >>)

C3_WriteAfterLastRow ==
    (outfile' # outfile \/ out_opens' # out_opens)
    => (pos = Len(file) + 1 /\ pc = "write" /\ out_opens' = 1)

C3_OutputFrame ==
    /\ [](C3_FrameOnAbort)
    /\ [](C3_WrittenOnce)
    /\ [][C3_WriteAfterLastRow]_vars

C3_Witness ==
    /\ pc = "fatal"
    /\ outfile_before = StaleContent
    /\ outfile = StaleContent
    /\ Len(rows) >= 1

\* C4: a row whose cleaned alpha-2 code upper-cases to KP uses KR in the dedup
\* key and in the tuple; no tuple carries an alpha-2 that upper-cases to KP;
\* a KP row and a KR row with the same regional code are duplicates, only
\* the earlier one is emitted.
KoreaRows(code) ==
    {k \in FullRows : /\ Clean(file[k][4]) = code
                      /\ \/ Upper(Clean(file[k][1])) = KP
                         \/ Clean(file[k][1]) = KR}

C4_KpRemap ==
    /\ \A m \in 1..Len(rows) : Upper(rows[m].country_alpha2) # KP
    /\ \A key \in seen : Upper(key[1]) # KP
    /\ \A k \in FullRows :
          (k < pos /\ pc # "start" /\ Upper(Clean(file[k][1])) = KP)
          => <<KR, Clean(file[k][4])>> \in seen
    /\ Succeeded =>
          \A k \in FullRows :
             Upper(Clean(file[k][1])) = KP =>
                LET first == Nth(KoreaRows(Clean(file[k][4])), 1)
                    hits == {m \in 1..Len(rows) :
                               /\ rows[m].country_alpha2 = KR
                               /\ CollapseQuotes(rows[m].subdivision_code)
                                     = Clean(file[k][4])}
                IN  /\ Cardinality(hits) = 1
                    /\ \A m \in hits : rows[m] = SpecTuple(file[first])

C4_Witness ==
    /\ pc = "done"
    /\ Len(file) = 2
    /\ file[1] = RowKp
    /\ file[2] = RowKR
    /\ Len(rows) = 1
    /\ rows[1].country_alpha2 = KR
    /\ rows[1].subdivision_id = 1

\* C5: in every emitted tuple the literals of subdivision code, name and type
\* are the cleaned fields with every single quote doubled and nothing else
\* changed, so collapsing the doubled quotes gives the cleaned field back.
C5_QuoteEscaping ==
    Succeeded =>
        /\ Len(rows) = Cardinality(FirstOccurrences)
        /\ \A m \in 1..Len(rows) :
              LET r == file[Nth(FirstOccurrences, m)] IN
              /\ IsDoubled(rows[m].subdivision_code, Clean(r[4]))
              /\ IsDoubled(rows[m].subdivision_name, Clean(r[2]))
              /\ IsDoubled(rows[m].subdivision_type, Capitalize(Clean(r[3])))

C5_Witness ==
    /\ pc = "done"
    /\ \E m \in 1..Len(rows) :
          /\ rows[m].subdivision_name = <<"'","'","'","'">>
          /\ rows[m].subdivision_code = <<"'","'","1">>
          /\ rows[m].subdivision_type = <<"P","'","'","r">>

\* C8 as stated: no row with fewer than 5 fields, the first row included,
\* ever causes a fatal error or an abort.
C8_MalformedRowNeverAborts ==
    (Aborted /\ pos > 1) => Len(file[pos - 1]) >= 5

C10_Alpha2Embedding ==
    Succeeded =>
        /\ Len(rows) = Cardinality(FirstOccurrences)
        /\ \A m \in 1..Len(rows) :
              LET a == Clean(file[Nth(FirstOccurrences, m)][1]) IN
              rows[m].country_alpha2 = IF Upper(a) = KP THEN KR ELSE a
        /\ \A j, k \in FullRows :
              (/\ Clean(file[j][1]) # Clean(file[k][1])
               /\ Upper(Clean(file[j][1])) = Upper(Clean(file[k][1]))
               /\ Upper(Clean(file[j][1])) # KP
               /\ Clean(file[j][4]) = Clean(file[k][4]))
              => \E m, n \in 1..Len(rows) :
                    /\ m # n
                    /\ rows[m].country_alpha2 = Clean(file[j][1])
                    /\ rows[n].country_alpha2 = Clean(file[k][1])
                    /\ CollapseQuotes(rows[m].subdivision_code)
                          = Clean(file[j][4])
                    /\ CollapseQuotes(rows[n].subdivision_code)
                          = Clean(file[k][4])

C10_Witness ==
    /\ pc = "done"
    /\ \E m, n \in 1..Len(rows) :
          /\ rows[m].country_alpha2 = <<"k","r">>
          /\ rows[n].country_alpha2 = KR
          /\ rows[m].subdivision_code = rows[n].subdivision_code
    /\ \E m \in 1..Len(rows) : rows[m].country_alpha2 = <<"K","'">>

(***************************************************************************)
(* Properties of visitor.py.                                               *)
(***************************************************************************)
\* C6 as stated: two executions with the same seed leave the same file, all
\* six fields of every row alike, whenever each of them is started.
C6_SameSeedSameOutput ==
    (run = 2 /\ gpc = "done") => csv_rows = prev_csv_rows

\* C7: the while loop ends only when the pool holds exactly PoolSize distinct
\* pairs and the pool is not changed afterwards; when the script finishes the
\* output holds exactly NumRows rows of 6 fields each, and the pair of every
\* row is a member of the pool.
C7_PoolComplete ==
    gpc \in {"rows", "done"} =>
        /\ Cardinality(unique_lat_longs) = PoolSize
        /\ Len(lat_long_list) = PoolSize
        /\ {lat_long_list[k] : k \in 1..Len(lat_long_list)} = unique_lat_longs

C7_RowsFromPool ==
    /\ gpc \in {"rows", "done"} =>
          \A k \in 1..Len(csv_rows) :
             /\ Len(csv_rows[k]) = 6
             /\ <<csv_rows[k][1], csv_rows[k][2]>> \in unique_lat_longs
    /\ gpc = "rows" => Len(csv_rows) = i
    /\ gpc = "done" => Len(csv_rows) = NumRows

C7_PoolFrozen ==
    /\ (gpc = "pool" /\ gpc' # "pool") =>
          Cardinality(unique_lat_longs) = PoolSize
    /\ (gpc \in {"rows", "done"} /\ run' = run) =>
          (unique_lat_longs' = unique_lat_longs
           /\ lat_long_list' = lat_long_list)

C7_PoolAndRowCount ==
    /\ [](C7_PoolComplete)
    /\ [](C7_RowsFromPool)
    /\ [][C7_PoolFrozen]_vars

\* a finished execution whose while loop had to retry after a collision and
\* whose rows reuse a pair of the pool
C7_Witness ==
    /\ gpc = "done"
    /\ attempts > PoolSize
    /\ Len(csv_rows) = NumRows
    /\ \E j, k \in 1..Len(csv_rows) :
          j # k /\ csv_rows[j][1] = csv_rows[k][1]
                /\ csv_rows[j][2] = csv_rows[k][2]

====
